---- MODULE Spec2Model ----
(***************************************************************************)
(* Model of the streaming chat backend of WebUI_Streamlit                  *)
(* (src/backend/main.py): POST /api/chat with its streaming generator      *)
(* generate_and_save, the upstream reader stream_ollama_response, the      *)
(* SQLite store of conversations and messages, and the endpoints that read *)
(* and delete conversations; and of the stateless streaming proxy          *)
(* (src/backend.py): POST /api/chat with its generator generate_stream.    *)
(* The two are separate servers: a run is a run of one of them.            *)
(* The non-streaming server (src/api.py) and the thread lists the two      *)
(* Streamlit front ends keep in st.session_state (src/app.py,              *)
(* src/app_unified.py) are modelled beside them, each with a specification *)
(* of its own.                                                             *)
(*                                                                         *)
(* Scheduling: every endpoint is an `async def` whose body performs only   *)
(* synchronous database calls, so it runs to its return without yielding   *)
(* to another request.  The generator generate_and_save is suspended at    *)
(* each upstream read and at each `yield`; the code between two such       *)
(* points is one atomic step.                                              *)
(***************************************************************************)
EXTENDS Naturals, Sequences, FiniteSets, TLC

\* ------------------------------------------------------------------ bounds
\* Number of chat requests (turn slots) of a run.
MaxTurns == 2
\* Number of upstream lines read in a run, over all turns.
MaxLines == 2
\* Number of DELETE /api/conversations/{id} requests of a run.
MaxDeletes == 1
\* Number of POST /api/conversations/{id}/title requests of a run.
MaxRenames == 1
\* Number of upstream lines the proxy of backend.py reads for its request.
MaxRelayLines == 4

\* --------------------------------------------------------------- constants
\* conversation_id: Optional[str] = None, and "no row" of a query.
NoId == 0
\* request.message[:50] + "..." if len(request.message) > 50
TitleLimit == 50
\* HTTP statuses: of a StreamingResponse, of HTTPException(status_code=404),
\* of FastAPI's answer to a body that is no ChatRequest, and of
\* HTTPException(status_code=500).
StatusOK == 200
StatusNotFound == 404
StatusUnprocessable == 422
StatusServerError == 500

Turns == 1..MaxTurns

\* model: str = "llama3.2"
DefaultModel == "llama3.2"
\* The models the upstream engine has installed; any other name is answered
\* with an HTTP error status.
InstalledModels == {DefaultModel}

\* Lines of the upstream response body, by what json.loads makes of them.
\*   frag    a JSON object with a "response" key (text) and a done flag
\*   blank   an empty or whitespace line
\*   garbage not JSON: json.JSONDecodeError
\*   error   a JSON object {"error": msg} without a "response" key
\*   scalar  valid JSON that is no container (null, true, 42)
FragmentLines ==
    { [kind |-> "frag", text |-> "a", done |-> FALSE],
      [kind |-> "frag", text |-> "b", done |-> TRUE] }
OtherLines ==
    { [kind |-> "blank", text |-> "", done |-> FALSE],
      [kind |-> "garbage", text |-> "", done |-> FALSE],
      [kind |-> "error", text |-> "boom", done |-> FALSE],
      [kind |-> "scalar", text |-> "", done |-> FALSE] }
UpstreamLines == FragmentLines \cup OtherLines

\* httpx.HTTPError raised by the upstream call, by where it is raised.
ConnectFailures == {"connect", "status"}
ReadFailures == {"timeout"}

VARIABLES
    conversations,  \* table conversations: id -> [title, created, updated]
    messages,       \* table messages, in rowid (insertion) order
    clock,          \* last value datetime.utcnow() returned
    next_uuid,      \* number of uuid4() values drawn so far
    turns,          \* per chat request: the handler's and generator's locals
    relay,          \* backend.py: one chat request and its generate_stream
    admin,          \* the last answer of delete_conversation or
                    \* update_conversation_title, and their numbers
    session_state,  \* app.py, app_unified.py: st.session_state of one browser
                    \* session
    api             \* api.py: the requests answered so far and the last answer

vars ==
    <<conversations, messages, clock, next_uuid, turns, relay, admin,
      session_state, api>>

\* What none of the two chat servers touches.
elsewhere == <<session_state, api>>

\* What a chat turn of main.py leaves alone besides the store.
beyond_chat == <<relay, admin, elsewhere>>
\* What a request to backend.py leaves alone.
beyond_relay ==
    <<conversations, messages, clock, next_uuid, turns, admin, elsewhere>>

\* ------------------------------------------------------------ pure helpers

RECURSIVE JoinStr(_, _)
\* sep.join(parts)
JoinStr(parts, sep) ==
    IF parts = <<>> THEN ""
    ELSE IF Len(parts) = 1 THEN parts[1]
    ELSE parts[1] \o sep \o JoinStr(Tail(parts), sep)

\* Faulty variant of JoinFragments: only the last chunk is kept.
JoinLastOnly(full_response) ==
    IF full_response = <<>> THEN "" ELSE full_response[Len(full_response)]
\* "".join(full_response)
JoinFragments(full_response) == JoinStr(full_response, "")

\* request.message[:50] + "..." if len(request.message) > 50 else request.message
TitleOf(message) ==
    IF Len(message) > TitleLimit
    THEN SubSeq(message, 1, TitleLimit) \o "..."
    ELSE message

\* f"[Error connecting to Ollama: {str(e)}]"
ErrorText(failure) == "[Error connecting to Ollama: " \o failure \o "]"

\* f"{'User' if msg.role == 'user' else 'Assistant'}: {msg.content}"
ContextLine(msg) ==
    (IF msg.role = "user" THEN "User" ELSE "Assistant") \o ": " \o msg.content

RECURSIVE ContextLines(_)
ContextLines(rows) ==
    IF rows = <<>> THEN <<>>
    ELSE <<ContextLine(Head(rows))>> \o ContextLines(Tail(rows))

\* "\n".join([... for msg in messages])
AssembleContext(rows) == JoinStr(ContextLines(rows), "\n")

\* db.query(MessageDB).filter(MessageDB.conversation_id == cid)
SelectMessages(rows, cid) ==
    SelectSeq(rows, LAMBDA m : m.conversation_id = cid)

RemoveAt(rows, i) ==
    SubSeq(rows, 1, i - 1) \o SubSeq(rows, i + 1, Len(rows))

RECURSIVE OrderByTimestamp(_)
\* .order_by(MessageDB.timestamp): every result SQL allows, that is every
\* arrangement of the rows with non-decreasing timestamps.  The query names no
\* second sort key, so rows with equal timestamps may come in either order.
OrderByTimestamp(rows) ==
    IF rows = <<>> THEN {<<>>}
    ELSE LET least == { i \in 1..Len(rows) :
                          \A j \in 1..Len(rows) :
                              rows[i].timestamp <= rows[j].timestamp }
         IN UNION { { <<rows[i]>> \o rest :
                        rest \in OrderByTimestamp(RemoveAt(rows, i)) } :
                    i \in least }

\* datetime.utcnow(): the wall clock, read again; its resolution is finite, so
\* two successive reads may return the same value.  Only the order of the
\* stored values matters: while `fresh` (no timestamp is stored yet) the value
\* read is taken as the origin.
UtcNow(last, fresh) == IF fresh THEN {last} ELSE {last, last + 1}

\* No row of either table holds a timestamp yet.
NothingStored == conversations = << >> /\ messages = << >>

RECURSIVE IdsOf(_)
IdsOf(rows) ==
    IF rows = <<>> THEN <<>> ELSE <<Head(rows).id>> \o IdsOf(Tail(rows))

RECURSIVE RolesOf(_)
RolesOf(rows) ==
    IF rows = <<>> THEN <<>> ELSE <<Head(rows).role>> \o RolesOf(Tail(rows))

\* The end of the first line of message: the position of its first line
\* break, or its length plus one.
FirstBreak(message) ==
    LET breaks == { i \in 1..Len(message) : SubSeq(message, i, i) = "\n" }
    IN IF breaks = {} THEN Len(message) + 1
       ELSE CHOOSE i \in breaks : \A j \in breaks : i <= j

\* message.splitlines()[0], or "" for an empty message.
FirstLine(message) == SubSeq(message, 1, FirstBreak(message) - 1)

\* ------------------------------------------------------------------- state

\* A chat request that has not arrived yet.
IdleTurn ==
    [ pc |-> "idle",
      request |-> [conversation_id |-> NoId, message |-> "",
                   model |-> DefaultModel, well_formed |-> TRUE],
      status |-> NoId, detail |-> "",
      conversation |-> NoId,      \* conversation.id
      user_message |-> NoId,      \* user_message.id
      context |-> "",
      db_closed |-> FALSE,        \* db.close() has run
      upstream |-> "unopened",    \* unopened, streaming, failed, ended, raised
      lines_read |-> 0,
      done_seen |-> FALSE,        \* a record with "done": true was read
      delivered |-> <<>>,         \* texts of the well-formed records received
      full_response |-> <<>>,
      events |-> <<>>,            \* events written to the caller, in order
      assistant_message |-> NoId, \* assistant_message.id
      writes_after_close |-> 0,
      overlapped |-> FALSE,       \* accepted while another turn on the same
                                  \* conversation had not ended
      disconnected |-> FALSE ]    \* the caller has gone away

\* No request to delete_conversation has been answered.
NoAnswer ==
    [calls |-> 0, renames |-> 0, op |-> "none", conversation_id |-> NoId,
     status |-> NoId]

\* backend.py: a chat request that has not arrived yet.  The proxy keeps no
\* state between requests, so one request shows all it can do.
IdleRelay ==
    [ pc |-> "idle",
      upstream |-> "unopened",    \* unopened, streaming, failed, ended, closed
      suspended |-> FALSE,        \* generate_stream is stopped at a yield
      lines_read |-> 0,
      delivered |-> <<>>,         \* texts of the well-formed records received
      events |-> <<>>,            \* events written to the caller, in order
      disconnected |-> FALSE ]

\* st.session_state where no front end runs: nothing is stored in it.
NoSession == [app |-> "none"]

\* api.py before its first request: nothing was answered.
NoCalls == [calls |-> 0, endpoint |-> "none"]

ServersIdle ==
    /\ conversations = << >>
    /\ messages = << >>
    /\ clock = 0
    /\ next_uuid = 0
    /\ turns = [t \in Turns |-> IdleTurn]
    /\ relay = IdleRelay
    /\ admin = NoAnswer

Init ==
    /\ ServersIdle
    /\ session_state = NoSession
    /\ api = NoCalls

\* The request bodies tried: an ordinary message, an empty message, a model the
\* upstream does not have, and (well_formed = FALSE) a body pydantic cannot
\* decode into ChatRequest, its message missing or not a string.
RequestBodies ==
    { [message |-> "hi", model |-> DefaultModel, well_formed |-> TRUE],
      [message |-> "", model |-> DefaultModel, well_formed |-> TRUE],
      [message |-> "hi", model |-> "nomodel", well_formed |-> TRUE],
      [message |-> "", model |-> DefaultModel, well_formed |-> FALSE] }

\* conversation_id of a request: none, an existing one, or one that names no row.
Requests ==
    { [conversation_id |-> c, message |-> b.message, model |-> b.model,
       well_formed |-> b.well_formed] :
        c \in {NoId} \cup DOMAIN conversations \cup {next_uuid + 1},
        b \in RequestBodies }

\* class ChatRequest(BaseModel): the body decodes iff message is a string; an
\* empty string and any model name are accepted.
ChatRequestValid(req) == req.well_formed

\* except Exception as e: raise HTTPException(status_code=500, detail=str(e)).
\* HTTPException is an Exception, so the 404 raised inside the try block is
\* caught here as well.
ExceptClause(exc) == [status |-> StatusServerError, detail |-> exc]

\* raise HTTPException(status_code=404, detail="Conversation not found"), as
\* str() renders it.
NotFoundException == "404: Conversation not found"

\* db.query(ConversationDB).filter(ConversationDB.id == cid).first()
ConversationExists(cid) == cid \in DOMAIN conversations

\* db.add(conversation); db.commit()
InsertConversation(table, cid, title, now) ==
    [c \in DOMAIN table \cup {cid} |->
        IF c = cid THEN [title |-> title, created |-> now, updated |-> now]
        ELSE table[c]]

\* A row of table messages.  `turn` is no column: it records the request that
\* inserted the row, for the properties below.
UserMessageRow(t, id, cid, content, now) ==
    [id |-> id, conversation_id |-> cid, role |-> "user",
     content |-> content, timestamp |-> now, turn |-> t]

\* Faulty variant of PersistUserMessage: the row is added to the session but
\* never committed before the session is closed.
DropUserMessage(rows, row) == rows
\* db.add(user_message); db.commit()
PersistUserMessage(rows, row) == Append(rows, row)

\* Faulty variant of AssistantConversationId: the conversation is looked up
\* in shared state (the newest conversation) instead of the request's own.
LatestConversationId(tr) ==
    CHOOSE c \in DOMAIN conversations : \A d \in DOMAIN conversations : d <= c
\* conversation_id=conversation.id of the assistant message: the conversation
\* object the closure of generate_and_save captured.
AssistantConversationId(tr) == tr.conversation

AssistantMessageRow(t, id, tr, now) ==
    [id |-> id, conversation_id |-> AssistantConversationId(tr),
     role |-> "assistant", content |-> JoinFragments(tr.full_response),
     timestamp |-> now, turn |-> t]

\* Faulty variant of PersistAssistantMessage: the reply is written over the
\* newest row instead of being inserted.
OverwriteNewestMessage(rows, row) ==
    IF rows = << >> THEN <<row>> ELSE [rows EXCEPT ![Len(rows)] = row]
\* db.add(assistant_message); db.commit()
PersistAssistantMessage(rows, row) == Append(rows, row)

ChunkEvent(content, cid) ==
    [type |-> "chunk", content |-> content, conversation_id |-> cid,
     message_id |-> NoId]

DoneEvent(mid) ==
    [type |-> "done", content |-> "", conversation_id |-> NoId,
     message_id |-> mid]

SetTurn(t, tr) == turns' = [turns EXCEPT ![t] = tr]

\* ----------------------------------------------------------------- actions

\* Some accepted turn on conversation cid has not ended its response.
InFlightOn(cid) ==
    \E u \in Turns : /\ turns[u].pc \in {"open", "streaming"}
                     /\ turns[u].conversation = cid

\* A turn slot is taken in arrival order.  (relay belongs to the other
\* server, which is not the one running when a turn arrives here.)
Arrives(t) ==
    /\ turns[t].pc = "idle"
    /\ \A u \in Turns : u < t => turns[u].pc # "idle"
    /\ relay.pc = "idle"

\* POST /api/chat with a body that does not decode into ChatRequest: FastAPI
\* answers 422 before chat_endpoint is entered.
ChatRejected(t) ==
    /\ Arrives(t)
    /\ \E req \in Requests :
        /\ ~ChatRequestValid(req)
        /\ SetTurn(t, [turns[t] EXCEPT !.pc = "responded", !.request = req,
                          !.status = StatusUnprocessable,
                          !.detail = "validation error"])
    /\ UNCHANGED <<conversations, messages, clock, next_uuid, beyond_chat>>

\* chat_endpoint, request.conversation_id given and no such row: the 404 is
\* raised inside the try block, caught by `except Exception`, the session is
\* rolled back and closed, and the response is built by the except clause.
ChatNotFound(t) ==
    /\ Arrives(t)
    /\ \E req \in Requests :
        /\ ChatRequestValid(req)
        /\ req.conversation_id # NoId
        /\ ~ConversationExists(req.conversation_id)
        /\ LET answer == ExceptClause(NotFoundException)
           IN SetTurn(t, [turns[t] EXCEPT !.pc = "responded", !.request = req,
                             !.status = answer.status,
                             !.detail = answer.detail,
                             !.db_closed = TRUE])
    /\ UNCHANGED <<conversations, messages, clock, next_uuid, beyond_chat>>

\* chat_endpoint, a db.commit() of the handler raises (the store cannot be
\* written): at the commit of the new conversation (line 154) or at the commit
\* of the user message (line 165).  db.rollback() drops the pending row; what
\* an earlier commit wrote stays.
ChatStorageFailure(t) ==
    /\ Arrives(t)
    /\ \E req \in Requests, point \in {"conversation", "user_message"} :
        /\ ChatRequestValid(req)
        /\ req.conversation_id # NoId => ConversationExists(req.conversation_id)
        /\ point = "conversation" => req.conversation_id = NoId
        /\ LET isNew == req.conversation_id = NoId
               created == isNew /\ point = "user_message"
               cid == IF isNew THEN next_uuid + 1 ELSE req.conversation_id
               answer == ExceptClause("storage error")
           IN /\ \E now \in (IF created THEN UtcNow(clock, NothingStored)
                                         ELSE {clock}) :
                  /\ conversations' =
                        IF created
                        THEN InsertConversation(conversations, cid,
                                                TitleOf(req.message), now)
                        ELSE conversations
                  /\ clock' = now
              /\ next_uuid' = next_uuid + (IF isNew THEN 1 ELSE 0)
                                        + (IF point = "user_message" THEN 1 ELSE 0)
              /\ SetTurn(t, [turns[t] EXCEPT !.pc = "responded",
                                !.request = req,
                                !.status = answer.status,
                                !.detail = answer.detail,
                                !.conversation = IF created \/ ~isNew
                                                 THEN cid ELSE NoId,
                                !.db_closed = TRUE])
    /\ UNCHANGED <<messages, beyond_chat>>

\* chat_endpoint up to `return StreamingResponse(...)`, for request req: get or
\* create the conversation, save the user message, build the context, close
\* the session (finally), hand the generator to the response.
AcceptRequest(t, req) ==
    /\ ChatRequestValid(req)
    /\ req.conversation_id # NoId => ConversationExists(req.conversation_id)
    /\ LET isNew == req.conversation_id = NoId
           cid == IF isNew THEN next_uuid + 1 ELSE req.conversation_id
           mid == next_uuid + (IF isNew THEN 2 ELSE 1)
       IN \E now1 \in (IF isNew THEN UtcNow(clock, NothingStored)
                                ELSE {clock}) :
          \E now2 \in UtcNow(now1, NothingStored /\ ~isNew) :
            LET rows == PersistUserMessage(messages,
                           UserMessageRow(t, mid, cid, req.message, now2))
            IN /\ conversations' =
                    IF isNew
                    THEN InsertConversation(conversations, cid,
                                            TitleOf(req.message), now1)
                    ELSE conversations
               /\ messages' = rows
               /\ clock' = now2
               /\ next_uuid' = mid
               /\ \E history \in OrderByTimestamp(SelectMessages(rows, cid)) :
                    SetTurn(t, [turns[t] EXCEPT !.pc = "open",
                                   !.request = req,
                                   !.status = StatusOK,
                                   !.conversation = cid,
                                   !.user_message = mid,
                                   !.context = AssembleContext(history),
                                   !.db_closed = TRUE,
                                   !.overlapped = InFlightOn(cid)])
    /\ UNCHANGED beyond_chat

ChatAccepted(t) ==
    /\ Arrives(t)
    /\ \E req \in Requests : AcceptRequest(t, req)

ChatEndpoint(t) ==
    \/ ChatRejected(t)
    \/ ChatNotFound(t)
    \/ ChatStorageFailure(t)
    \/ ChatAccepted(t)

\* except httpx.HTTPError as e: yield f"[Error connecting to Ollama: ...]",
\* received by generate_and_save like any other chunk.
YieldError(tr, failure) ==
    [tr EXCEPT !.pc = "streaming",
               !.upstream = "failed",
               !.full_response = Append(@, ErrorText(failure)),
               !.events = Append(@, ChunkEvent(ErrorText(failure),
                                               tr.conversation))]

\* generate_and_save starts: stream_ollama_response opens client.stream(...)
\* and response.raise_for_status() runs.
OpenUpstream(t) ==
    /\ turns[t].pc = "open"
    /\ \/ /\ turns[t].request.model \in InstalledModels
          /\ SetTurn(t, [turns[t] EXCEPT !.pc = "streaming",
                                         !.upstream = "streaming"])
       \/ \E failure \in ConnectFailures :
            SetTurn(t, YieldError(turns[t], failure))
    /\ UNCHANGED <<conversations, messages, clock, next_uuid, beyond_chat>>

RECURSIVE LinesRead(_)
\* The lines read so far by turns 1..n.
LinesRead(n) ==
    IF n = 0 THEN 0 ELSE turns[n].lines_read + LinesRead(n - 1)

\* One line of response.aiter_lines(), lines 96-103, and for a fragment the
\* body of the `async for chunk` loop of generate_and_save up to its yield:
\* the locals of the turn after the line.
HandleLine(tr0, line) ==
    LET tr == [tr0 EXCEPT !.lines_read = @ + 1,
                          !.done_seen = @ \/ (line.kind = "frag" /\ line.done)]
    IN CASE line.kind = "frag" ->
              [tr EXCEPT
                  !.delivered = Append(@, line.text),
                  !.full_response = Append(@, line.text),
                  !.events = Append(@, ChunkEvent(line.text, tr.conversation))]
         [] line.kind \in {"blank", "garbage", "error"} ->
              \* `if line.strip()` is false; json.JSONDecodeError: continue;
              \* a JSON object without "response": nothing is yielded.
              tr
         [] line.kind = "scalar" ->
              \* "response" in data raises TypeError, which no except
              \* clause of the generator catches: the response ends here.
              [tr EXCEPT !.pc = "aborted", !.upstream = "raised"]

\* generate_and_save is advanced and the upstream delivers a line.
ReadLine(t) ==
    /\ turns[t].pc = "streaming"
    /\ turns[t].upstream = "streaming"
    /\ LinesRead(MaxTurns) < MaxLines
    /\ \E line \in UpstreamLines : SetTurn(t, HandleLine(turns[t], line))
    /\ UNCHANGED <<conversations, messages, clock, next_uuid, beyond_chat>>

\* The upstream read raises httpx.HTTPError after the response has started
\* (read timeout, connection lost).
ReadFailure(t) ==
    /\ turns[t].pc = "streaming"
    /\ turns[t].upstream = "streaming"
    /\ \E failure \in ReadFailures :
        SetTurn(t, YieldError(turns[t], failure))
    /\ UNCHANGED <<conversations, messages, clock, next_uuid, beyond_chat>>

\* The value of `upstream` once the `async for` of generate_and_save is over.
Exhausted(tr) == IF tr.upstream = "streaming" THEN "ended" ELSE tr.upstream

\* generate_and_save after its loop, lines 185-199: the stream is exhausted
\* (the upstream closed it, or the error text was the last chunk); add the
\* assistant message, set conversation.updated on the conversation object,
\* commit, yield the done event.  The conversation object was detached by
\* db.close(), so the commit writes the message row only.
SaveAssistant(t) ==
    /\ turns[t].pc = "streaming"
    /\ turns[t].upstream \in {"streaming", "failed"}
    /\ \E now \in UtcNow(clock, NothingStored) :
        LET mid == next_uuid + 1
        IN /\ messages' = PersistAssistantMessage(messages,
                                 AssistantMessageRow(t, mid, turns[t], now))
           /\ clock' = now
           /\ next_uuid' = mid
           /\ SetTurn(t, [turns[t] EXCEPT
                  !.pc = "finished",
                  !.upstream = Exhausted(turns[t]),
                  !.assistant_message = mid,
                  !.writes_after_close = @ + (IF turns[t].db_closed THEN 1 ELSE 0),
                  !.events = Append(@, DoneEvent(mid))])
    /\ UNCHANGED <<conversations, beyond_chat>>

\* The same step when db.commit() raises: the exception leaves the generator,
\* nothing is written and no further event is sent.
SaveFails(t) ==
    /\ turns[t].pc = "streaming"
    /\ turns[t].upstream \in {"streaming", "failed"}
    /\ next_uuid' = next_uuid + 1
    /\ SetTurn(t, [turns[t] EXCEPT !.pc = "aborted",
                                   !.upstream = Exhausted(turns[t])])
    /\ UNCHANGED <<conversations, messages, clock, beyond_chat>>

\* GET /api/conversations/{conversation_id}/messages: the endpoint changes
\* nothing; these are the message lists it may return in the current state.
GetConversationMessages(conversation_id) ==
    OrderByTimestamp(SelectMessages(messages, conversation_id))

RECURSIVE OrderByUpdatedDesc(_)
\* .order_by(ConversationDB.updated.desc()): every arrangement of the
\* conversations ids with non-increasing updated values.
OrderByUpdatedDesc(ids) ==
    IF ids = {} THEN {<<>>}
    ELSE LET greatest == { c \in ids :
                             \A d \in ids : conversations[c].updated
                                               >= conversations[d].updated }
         IN UNION { { <<c>> \o rest : rest \in OrderByUpdatedDesc(ids \ {c}) } :
                    c \in greatest }

\* GET /api/conversations: the endpoint changes nothing; these are the lists
\* of conversation ids it may return in the current state.
GetConversations == OrderByUpdatedDesc(DOMAIN conversations)

\* ------------------------------------------- main.py: conversation titles

RECURSIVE Repeat(_, _)
\* text * n
Repeat(text, n) == IF n = 0 THEN "" ELSE text \o Repeat(text, n - 1)

\* Messages around the title limit, of one line and of several lines.
TitleTexts ==
    { "hi",
      "",
      Repeat("x", TitleLimit),
      Repeat("x", TitleLimit + 1),
      "ab\ncd",
      "ab\n" \o Repeat("y", TitleLimit),
      Repeat("x", TitleLimit + 1) \o "\ncd" }

TitleRequests ==
    { [conversation_id |-> c, message |-> text, model |-> DefaultModel,
       well_formed |-> TRUE] :
        c \in {NoId} \cup DOMAIN conversations, text \in TitleTexts }

\* chat_endpoint accepting a request whose message is one of TitleTexts.
ChatTitled(t) ==
    /\ Arrives(t)
    /\ \E req \in TitleRequests : AcceptRequest(t, req)

\* ----------------------------------------- main.py: delete_conversation

\* Faulty variant of CascadeDelete: the rows of table messages are left
\* behind (no cascade on the relationship).
KeepMessages(rows, cid) == rows
\* relationship("MessageDB", ..., cascade="all, delete-orphan"): deleting the
\* conversation through the session deletes the messages that refer to it.
CascadeDelete(rows, cid) == SelectSeq(rows, LAMBDA m : m.conversation_id # cid)

\* The conversations table without row cid.
DeleteRow(table, cid) == [c \in DOMAIN table \ {cid} |-> table[c]]

\* DELETE /api/conversations/{conversation_id}.  The 404 is raised inside a
\* try block that has a finally clause only, so it reaches the caller.
\* db.delete(conversation); db.commit() is one transaction.
DeleteConversation ==
    /\ admin.calls < MaxDeletes
    /\ relay.pc = "idle"
    /\ \E conversation_id \in DOMAIN conversations \cup {next_uuid + 1} :
        IF ConversationExists(conversation_id)
        THEN /\ conversations' = DeleteRow(conversations, conversation_id)
             /\ messages' = CascadeDelete(messages, conversation_id)
             /\ admin' = [calls |-> admin.calls + 1, renames |-> admin.renames,
                          op |-> "delete",
                          conversation_id |-> conversation_id,
                          status |-> StatusOK]
        ELSE /\ admin' = [calls |-> admin.calls + 1, renames |-> admin.renames,
                          op |-> "delete",
                          conversation_id |-> conversation_id,
                          status |-> StatusNotFound]
             /\ UNCHANGED <<conversations, messages>>
    /\ UNCHANGED <<clock, next_uuid, turns, relay, elsewhere>>

\* ----------------------------------- main.py: update_conversation_title

\* The titles a caller renames conversations to.
RenameTitles == {"t"}

\* conversation.title = title; db.commit().  An UPDATE is issued only if the
\* title differs from the stored one; it sets `updated` as well (onupdate).
RenameRow(table, cid, title, now) ==
    IF table[cid].title = title THEN table
    ELSE [table EXCEPT ![cid] = [@ EXCEPT !.title = title, !.updated = now]]

\* POST /api/conversations/{conversation_id}/title.  As in
\* delete_conversation the 404 reaches the caller.
UpdateConversationTitle ==
    /\ admin.renames < MaxRenames
    /\ relay.pc = "idle"
    /\ \E conversation_id \in DOMAIN conversations \cup {next_uuid + 1},
          title \in RenameTitles :
        IF ConversationExists(conversation_id)
        THEN \E now \in UtcNow(clock, FALSE) :
               /\ conversations' =
                     RenameRow(conversations, conversation_id, title, now)
               /\ clock' = IF conversations' = conversations THEN clock ELSE now
               /\ admin' = [admin EXCEPT !.renames = @ + 1, !.op = "rename",
                                         !.conversation_id = conversation_id,
                                         !.status = StatusOK]
        ELSE /\ admin' = [admin EXCEPT !.renames = @ + 1, !.op = "rename",
                                       !.conversation_id = conversation_id,
                                       !.status = StatusNotFound]
             /\ UNCHANGED <<conversations, clock>>
    /\ UNCHANGED <<messages, next_uuid, turns, relay, elsewhere>>

\* ------------------------------------------------- main.py: disconnection

\* The upstream connection of a request is open.
ConnectionOpen(r) == r.upstream = "streaming"

\* Faulty variant of CancelGenerator: the server drops what is sent to a
\* caller that has gone away and keeps advancing the generator.
KeepRunning(tr, at_read) == [tr EXCEPT !.disconnected = TRUE]
\* The caller of a streaming response goes away and the server stops advancing
\* generate_and_save.  If the generator was waiting for an upstream line
\* (at_read), the cancellation is raised inside stream_ollama_response and
\* leaves its two `async with` blocks, which close the connection.  If it was
\* stopped at its `yield`, it is abandoned there and the connection stays open
\* until the event loop finalizes the generators.  In neither case does
\* generate_and_save reach the code after its loop: it has no except or
\* finally clause.
CancelGenerator(tr, at_read) ==
    [tr EXCEPT !.disconnected = TRUE,
               !.pc = "cancelled",
               !.upstream = IF ConnectionOpen(tr) /\ at_read
                            THEN "closed" ELSE @]

\* The caller of turn t disconnects while the response is being streamed.
Disconnect(t) ==
    /\ turns[t].pc \in {"open", "streaming"}
    /\ ~turns[t].disconnected
    /\ \E at_read \in BOOLEAN :
        \* nothing was yielded yet: the generator can only be at a read
        /\ (ConnectionOpen(turns[t]) /\ turns[t].events = << >>) => at_read
        /\ SetTurn(t, CancelGenerator(turns[t], at_read))
    /\ UNCHANGED <<conversations, messages, clock, next_uuid, beyond_chat>>

\* The event loop finalizes the abandoned generators of turn t (aclose()):
\* GeneratorExit is raised at `yield data["response"]`, no except clause of
\* stream_ollama_response catches it, and the `async with` blocks close the
\* upstream response and the client.
Finalize(t) ==
    /\ turns[t].pc = "cancelled"
    /\ ConnectionOpen(turns[t])
    /\ SetTurn(t, [turns[t] EXCEPT !.upstream = "closed"])
    /\ UNCHANGED <<conversations, messages, clock, next_uuid, beyond_chat>>

\* ------------------------------------------------ backend.py: POST /api/chat

\* The exceptions of requests.post(...): requests.exceptions.Timeout and other
\* RequestExceptions; and those of iter_lines().
RelayConnectFailures == {"timeout", "connect"}
RelayReadFailures == {"timeout", "reset"}

\* HTTP statuses the upstream may answer.
RelayStatuses == {StatusOK, StatusNotFound, StatusServerError}

\* str(response.status_code)
StatusText(status) ==
    IF status = StatusOK THEN "200"
    ELSE IF status = StatusNotFound THEN "404" ELSE "500"

\* sse_data = {"type": "chunk", "content": ..., "done": ...}
RelayChunk(content, done) ==
    [type |-> "chunk", content |-> content, done |-> done]

\* {'type': 'error', 'content': error_msg}
RelayError(error_msg) ==
    [type |-> "error", content |-> error_msg, done |-> FALSE]

\* The three except clauses of generate_stream, by the exception raised.
RelayErrorText(failure) ==
    IF failure = "timeout" THEN "Request timed out. Please try again."
    ELSE "Connection error: " \o failure

\* The chunk generate_stream is stopped at carries done = True: when resumed
\* it leaves the loop (`break`).
DoneSeen(r) ==
    /\ r.suspended
    /\ r.events # << >>
    /\ r.events[Len(r.events)].type = "chunk"
    /\ r.events[Len(r.events)].done

\* Faulty variant of RelayFails: the error event is sent and the generator
\* goes on where it stood.
RelayGoesOn(r, error_msg) ==
    [r EXCEPT !.suspended = FALSE,
              !.events = Append(@, RelayError(error_msg))]
\* generate_stream ends with an error event: the `return` of line 117 or one
\* of the except clauses, all of which leave the `with` block first.
RelayFails(r, error_msg) ==
    [r EXCEPT !.pc = "finished",
              !.upstream = "failed",
              !.suspended = FALSE,
              !.events = Append(@, RelayError(error_msg))]

\* chat(): the request is accepted and the StreamingResponse is returned;
\* generate_stream has not been advanced yet.
RelayAccepted ==
    /\ relay.pc = "idle"
    /\ \A t \in Turns : turns[t].pc = "idle"
    /\ relay' = [relay EXCEPT !.pc = "open"]
    /\ UNCHANGED beyond_relay

\* generate_stream starts: requests.post(...), then the status check.
RelayOpen ==
    /\ relay.pc = "open"
    /\ \/ \E status \in RelayStatuses :
            relay' = IF status = StatusOK
                     THEN [relay EXCEPT !.pc = "streaming",
                                        !.upstream = "streaming"]
                     ELSE RelayFails(relay, "Ollama API error: "
                                              \o StatusText(status))
       \/ \E failure \in RelayConnectFailures :
            relay' = RelayFails(relay, RelayErrorText(failure))
    /\ UNCHANGED beyond_relay

\* One line of response.iter_lines(), lines 120-148.  The generator runs from
\* where it stands (a read or a yield, where done = False) up to the next
\* yield or the next read.
RelayLine ==
    /\ relay.pc = "streaming"
    /\ ~DoneSeen(relay)
    /\ relay.lines_read < MaxRelayLines
    /\ \E line \in UpstreamLines :
        LET r == [relay EXCEPT !.lines_read = @ + 1]
        IN IF line.kind = "frag"
           THEN relay' = [r EXCEPT
                    !.suspended = TRUE,
                    !.delivered = Append(@, line.text),
                    !.events = Append(@, RelayChunk(line.text, line.done))]
           \* blank: `if line` is false; garbage: json.JSONDecodeError;
           \* error: no "response" key; scalar: TypeError, caught by
           \* `except Exception`.  All four go on with the next line.
           ELSE relay' = [r EXCEPT !.suspended = FALSE]
    /\ UNCHANGED beyond_relay

\* The loop ends, by `break` after a done chunk or because the upstream closed
\* the body; the `with` block closes the response.  No event is sent.
RelayEnd ==
    /\ relay.pc = "streaming"
    /\ relay' = [relay EXCEPT !.pc = "finished", !.upstream = "ended",
                              !.suspended = FALSE]
    /\ UNCHANGED beyond_relay

\* iter_lines() raises (connection lost, read timeout): the except clauses of
\* lines 150-163.
RelayReadFailure ==
    /\ relay.pc = "streaming"
    /\ ~DoneSeen(relay)
    /\ \E failure \in RelayReadFailures :
        relay' = RelayFails(relay, RelayErrorText(failure))
    /\ UNCHANGED beyond_relay

\* Faulty variant of AbandonStream: the generator is advanced as before.
RelayKeepRunning(r) == [r EXCEPT !.disconnected = TRUE]
\* The server stops advancing generate_stream, which stays at its yield (or
\* was never started).
AbandonStream(r) == [r EXCEPT !.disconnected = TRUE, !.pc = "cancelled"]

\* The caller disconnects.  generate_stream reads with the blocking requests
\* library, so the server can notice only before the generator is started or
\* while it is stopped at a yield.
RelayDisconnect ==
    /\ \/ relay.pc = "open"
       \/ relay.pc = "streaming" /\ relay.suspended
    /\ ~relay.disconnected
    /\ relay' = AbandonStream(relay)
    /\ UNCHANGED beyond_relay

\* The abandoned generator is finalized: GeneratorExit is raised at the yield
\* of line 136, which `except Exception` does not catch, and the `with` block
\* closes the upstream response.
RelayFinalize ==
    /\ relay.pc = "cancelled"
    /\ ConnectionOpen(relay)
    /\ relay' = [relay EXCEPT !.upstream = "closed", !.suspended = FALSE]
    /\ UNCHANGED beyond_relay

Proxy ==
    \/ RelayAccepted
    \/ RelayOpen
    \/ RelayLine
    \/ RelayEnd
    \/ RelayReadFailure

\* ----------------------------------------------------------- specifications

\* backend.py alone: one request of the proxy, which its caller may abandon.
NextRelay == Proxy \/ RelayDisconnect \/ RelayFinalize

SpecRelay == Init /\ [][NextRelay]_vars

Generator(t) ==
    \/ OpenUpstream(t)
    \/ ReadLine(t)
    \/ ReadFailure(t)
    \/ SaveAssistant(t)
    \/ SaveFails(t)

\* Chat turns, any number of them in flight at once.
Next == \E t \in Turns : ChatEndpoint(t) \/ Generator(t)

Spec == Init /\ [][Next]_vars

\* Requests accepted by chat_endpoint, over messages of all shapes; the
\* responses are not followed.
NextTitle == \E t \in Turns : ChatTitled(t)

SpecTitle == Init /\ [][NextTitle]_vars

\* Chat turns and requests to delete conversations, in any order.
NextDelete ==
    \/ \E t \in Turns : ChatEndpoint(t) \/ Generator(t)
    \/ DeleteConversation

SpecDelete == Init /\ [][NextDelete]_vars

\* Requests with one message text, on a new or an existing conversation.
StoreRequests ==
    { [conversation_id |-> c, message |-> "hi", model |-> DefaultModel,
       well_formed |-> TRUE] : c \in {NoId} \cup DOMAIN conversations }

\* chat_endpoint accepting one of StoreRequests.
ChatStored(t) ==
    /\ Arrives(t)
    /\ \E req \in StoreRequests : AcceptRequest(t, req)

\* A run with one request to delete or to rename a conversation.
DeleteOnce == admin.renames = 0 /\ DeleteConversation
RenameOnce == admin.calls = 0 /\ UpdateConversationTitle

\* The operations of main.py that write the store, in any order: chat turns
\* and one request to delete or rename.  (The list and fetch endpoints write
\* nothing: GetConversations, GetConversationMessages.)
NextStore ==
    \/ \E t \in Turns : ChatStored(t) \/ Generator(t)
    \/ DeleteOnce
    \/ RenameOnce

SpecStore == Init /\ [][NextStore]_vars

\* Either server, with callers that may go away during a response.
NextCancel ==
    \/ \E t \in Turns :
          ChatEndpoint(t) \/ Generator(t) \/ Disconnect(t) \/ Finalize(t)
    \/ Proxy
    \/ RelayDisconnect
    \/ RelayFinalize

\* The event loop runs the finalizers it has scheduled.
SpecCancel ==
    /\ Init
    /\ [][NextCancel]_vars
    /\ \A t \in Turns : WF_vars(Finalize(t))
    /\ WF_vars(RelayFinalize)

\* ------------------------------- app.py, app_unified.py: the thread list
\* One browser session of one of the two front ends.  Streamlit runs the
\* script once per widget event and a handler ends with st.rerun(), which
\* runs the script again and renders the sidebar: an action is the handler
\* together with that render.  The search box is left empty, so the sidebar
\* lists every thread.  In app.py st.session_state.messages is the list
\* object of the active thread (sync_active_messages), so it has no field of
\* its own here.

MaxThreads == 4
MaxSends == 2

SnippetLimit == 36
SnippetKept == 33
GeneratedLimit == 40

FrontEnds == {"app", "unified"}
DefaultTitle(app) == IF app = "app" THEN "New chat" ELSE "New Chat"

\* Chat inputs: one line, two lines, a line longer than both title limits.
UserInputs == {"hi", "go\nnow", Repeat("x", GeneratedLimit + 1)}
ReplyText == "ok"
AttachmentNote == "Attached File"

CreateThread(id, title) == [id |-> id, title |-> title, messages |-> <<>>]

\* The session after the script's first run: one empty thread, active.
FirstSession(app) ==
    [ app |-> app,               \* the front end that runs: "app", "unified"
      chat_threads |-> <<CreateThread(1, DefaultTitle(app))>>,
                                 \* threads [id, title, messages], as listed
      active_thread_id |-> 1,
      uuids |-> 1,               \* number of uuid4() values drawn so far
      sends |-> 0,               \* number of chat inputs submitted so far
      pc |-> "idle" ]            \* "thinking": the script waits for the reply

ThreadIds(threads) == { threads[i].id : i \in 1..Len(threads) }

\* The position of the first thread with this id.
ThreadAt(threads, thread_id) ==
    CHOOSE i \in 1..Len(threads) :
        /\ threads[i].id = thread_id
        /\ \A k \in 1..(i - 1) : threads[k].id # thread_id

WithoutThread(threads, thread_id) ==
    SelectSeq(threads, LAMBDA thread : thread.id # thread_id)

\* app.py get_active_thread returns None for an id that is not listed,
\* app_unified.py get_active_thread falls back to the first thread.
GetActiveThread(s) ==
    IF s.active_thread_id \in ThreadIds(s.chat_threads)
    THEN ThreadAt(s.chat_threads, s.active_thread_id)
    ELSE IF s.app = "unified" THEN 1 ELSE 0

\* The user messages the title derivation looks at, oldest first.
UserTurns(thread_messages) ==
    SelectSeq(thread_messages,
              LAMBDA message : message.role = "user" /\ message.content # "")

OldestFirst(asked) == asked[1]
NewestFirst(asked) == asked[Len(asked)]

\* The first line of a message, cut for the sidebar.
Snippet(content) ==
    LET line == FirstLine(content)
    IN IF Len(line) > SnippetLimit
       THEN SubSeq(line, 1, SnippetKept) \o "..."
       ELSE line

\* derive_thread_title: `for message in reversed(messages)` stops at the
\* newest user message with content.
DeriveThreadTitle(thread, default) ==
    LET existing == IF thread.title # "" THEN thread.title ELSE default
        asked == UserTurns(thread.messages)
        snippet == Snippet(NewestFirst(asked).content)
    IN IF asked = <<>> THEN thread
       ELSE [thread EXCEPT !.title = IF snippet # "" THEN snippet
                                     ELSE existing]

\* The sidebar calls derive_thread_title on every listed thread.
RenderSidebar(s) ==
    [ s EXCEPT !.chat_threads =
        [ i \in 1..Len(@) |-> DeriveThreadTitle(@[i], DefaultTitle(s.app)) ] ]

\* app.py start_new_thread, app_unified.py create_new_chat.
StartNewThread(s) ==
    [ s EXCEPT
        !.uuids = @ + 1,
        !.chat_threads =
            <<CreateThread(s.uuids + 1, DefaultTitle(s.app))>> \o @,
        !.active_thread_id = s.uuids + 1 ]

\* app.py switch_thread.
SwitchThread(s, thread_id) ==
    IF thread_id = s.active_thread_id THEN s
    ELSE IF thread_id \in ThreadIds(s.chat_threads)
    THEN [s EXCEPT !.active_thread_id = thread_id]
    ELSE [ s EXCEPT
             !.uuids = @ + 1,
             !.chat_threads =
                 Append(@, CreateThread(s.uuids + 1, DefaultTitle(s.app))),
             !.active_thread_id = s.uuids + 1 ]

\* app.py delete_thread.
AppDeleteThread(s, thread_id) ==
    LET remaining == WithoutThread(s.chat_threads, thread_id)
    IN IF s.chat_threads = <<>> THEN s
       ELSE IF Len(remaining) = Len(s.chat_threads) THEN s
       ELSE IF remaining = <<>>
       THEN [ s EXCEPT
                !.uuids = @ + 1,
                !.chat_threads =
                    <<CreateThread(s.uuids + 1, DefaultTitle(s.app))>>,
                !.active_thread_id = s.uuids + 1 ]
       ELSE IF \/ s.active_thread_id = thread_id
               \/ s.active_thread_id \notin ThreadIds(remaining)
       THEN [ s EXCEPT !.chat_threads = remaining,
                       !.active_thread_id = remaining[1].id ]
       ELSE [s EXCEPT !.chat_threads = remaining]

\* Faulty variant of FirstListed: the active thread id is left as it is.
KeepActive(s, remaining) == s.active_thread_id
\* app_unified.py delete_thread, with threads left after the filter: the
\* first of them becomes the active thread.
FirstListed(s, remaining) == remaining[1].id

\* app_unified.py delete_thread.
UnifiedDeleteThread(s, thread_id) ==
    LET remaining == WithoutThread(s.chat_threads, thread_id)
    IN IF remaining = <<>>
       THEN StartNewThread([s EXCEPT !.chat_threads = <<>>])
       ELSE [ s EXCEPT !.chat_threads = remaining,
                       !.active_thread_id = FirstListed(s, remaining) ]

\* app.py clear_messages.
ClearMessages(s) ==
    LET active == GetActiveThread(s)
    IN IF active = 0 THEN s
       ELSE [ s EXCEPT !.chat_threads[active].messages = <<>>,
                       !.chat_threads[active].title = "New chat" ]

\* app.py refresh_active_thread_title.
RefreshActiveThreadTitle(s) ==
    LET active == GetActiveThread(s)
    IN IF active = 0 THEN s
       ELSE IF s.chat_threads[active].messages # <<>>
       THEN [ s EXCEPT !.chat_threads[active] =
                DeriveThreadTitle(@, DefaultTitle(s.app)) ]
       ELSE [s EXCEPT !.chat_threads[active].title = "New chat"]

\* app_unified.py rename_thread.
RenameThread(s, thread_id, new_name) ==
    IF thread_id \in ThreadIds(s.chat_threads)
    THEN [ s EXCEPT
             !.chat_threads[ThreadAt(s.chat_threads, thread_id)].title =
                 new_name ]
    ELSE s

Whitespace == {" ", "\n", "\t"}
LowerCase == "abcdefghijklmnopqrstuvwxyz"
UpperCase == "ABCDEFGHIJKLMNOPQRSTUVWXYZ"

\* str.upper() of one character.
Upper(char) ==
    LET at == { k \in 1..Len(LowerCase) : SubSeq(LowerCase, k, k) = char }
    IN IF at = {} THEN char
       ELSE LET k == CHOOSE k \in at : TRUE IN SubSeq(UpperCase, k, k)

\* " ".join(text.split()) from position i on: joined is the text built so
\* far, gap tells that white space was passed since its last character.
RECURSIVE JoinWords(_, _, _, _)
JoinWords(text, i, joined, gap) ==
    IF i > Len(text) THEN joined
    ELSE LET char == SubSeq(text, i, i)
         IN IF char \in Whitespace
            THEN JoinWords(text, i + 1, joined, joined # "")
            ELSE JoinWords(text, i + 1,
                           IF gap THEN joined \o " " \o char
                           ELSE joined \o char,
                           FALSE)

\* app_unified.py generate_title.
GenerateTitle(text) ==
    LET joined == JoinWords(text, 1, "", FALSE)
        title == IF joined = "" THEN "New Chat"
                 ELSE Upper(SubSeq(joined, 1, 1))
                      \o SubSeq(joined, 2, Len(joined))
    IN IF Len(title) > GeneratedLimit
       THEN SubSeq(title, 1, GeneratedLimit) \o "..."
       ELSE title

Message(role, content) == [role |-> role, content |-> content]

\* What every front-end action leaves alone.
beyond_session ==
    <<conversations, messages, clock, next_uuid, turns, relay, admin, api>>

Idle(app) == session_state.app = app /\ session_state.pc = "idle"

\* One more thread may be created.
MayCreate == session_state.uuids < MaxThreads

\* app.py: button "New chat" (reset_conversation).
AppNewChat ==
    /\ Idle("app")
    /\ MayCreate
    /\ session_state' = RenderSidebar(StartNewThread(session_state))
    /\ UNCHANGED beyond_session

\* app.py: button "Clear chat".
AppClearChat ==
    /\ Idle("app")
    /\ session_state' = RenderSidebar(ClearMessages(session_state))
    /\ UNCHANGED beyond_session

\* app.py: the button of a listed thread; the active thread's is disabled.
AppSwitch(thread_id) ==
    /\ Idle("app")
    /\ thread_id \in ThreadIds(session_state.chat_threads)
    /\ thread_id # session_state.active_thread_id
    /\ session_state' = RenderSidebar(SwitchThread(session_state, thread_id))
    /\ UNCHANGED beyond_session

\* app.py: the delete button of a listed thread.
AppDelete(thread_id) ==
    /\ Idle("app")
    /\ thread_id \in ThreadIds(session_state.chat_threads)
    /\ Len(session_state.chat_threads) > 1 \/ MayCreate
    /\ session_state' =
           RenderSidebar(AppDeleteThread(session_state, thread_id))
    /\ UNCHANGED beyond_session

\* app.py: a chat input.  The user message is appended to the active
\* thread's list, the title refreshed, the reply appended.
AppSend(user_prompt) ==
    /\ Idle("app")
    /\ session_state.sends < MaxSends
    /\ LET active == GetActiveThread(session_state)
           asked == [ session_state EXCEPT
                        !.sends = @ + 1,
                        !.chat_threads[active].messages =
                            Append(@, Message("user", user_prompt)) ]
           titled == RefreshActiveThreadTitle(asked)
           answered == [ titled EXCEPT
                           !.chat_threads[active].messages =
                               Append(@, Message("assistant", ReplyText)) ]
       IN session_state' = RenderSidebar(answered)
    /\ UNCHANGED beyond_session

\* app_unified.py: button "New Chat".
UnifiedNewChat ==
    /\ Idle("unified")
    /\ MayCreate
    /\ session_state' = RenderSidebar(StartNewThread(session_state))
    /\ UNCHANGED beyond_session

\* app_unified.py: button "Clear All Chats".
UnifiedClearAll ==
    /\ Idle("unified")
    /\ MayCreate
    /\ session_state' =
           RenderSidebar(StartNewThread(
               [session_state EXCEPT !.chat_threads = <<>>]))
    /\ UNCHANGED beyond_session

\* app_unified.py: the button of a listed thread; the active thread's is
\* disabled.
UnifiedSwitch(t_id) ==
    /\ Idle("unified")
    /\ t_id \in ThreadIds(session_state.chat_threads)
    /\ t_id # session_state.active_thread_id
    /\ session_state' =
           RenderSidebar([session_state EXCEPT !.active_thread_id = t_id])
    /\ UNCHANGED beyond_session

\* app_unified.py: the delete button of a listed thread.
UnifiedDelete(t_id) ==
    /\ Idle("unified")
    /\ t_id \in ThreadIds(session_state.chat_threads)
    /\ Len(session_state.chat_threads) > 1 \/ MayCreate
    /\ session_state' =
           RenderSidebar(UnifiedDeleteThread(session_state, t_id))
    /\ UNCHANGED beyond_session

\* app_unified.py: a chat input, up to the call of the backend.  With a
\* staged attachment a system note precedes the user message; a thread of at
\* most two messages is titled from the input.
UnifiedSend(user_input, attached) ==
    /\ Idle("unified")
    /\ session_state.sends < MaxSends
    /\ LET active == GetActiveThread(session_state)
           noted == IF attached
                    THEN Append(session_state.chat_threads[active].messages,
                                Message("system", AttachmentNote))
                    ELSE session_state.chat_threads[active].messages
           asked == [ session_state EXCEPT
                        !.sends = @ + 1,
                        !.pc = "thinking",
                        !.chat_threads[active].messages =
                            Append(noted, Message("user", user_input)) ]
       IN session_state' =
              IF Len(asked.chat_threads[active].messages) <= 2
              THEN RenameThread(asked, asked.chat_threads[active].id,
                                GenerateTitle(user_input))
              ELSE asked
    /\ UNCHANGED beyond_session

\* app_unified.py: the backend's answer is appended and the script rerun.
UnifiedReply ==
    /\ session_state.app = "unified"
    /\ session_state.pc = "thinking"
    /\ LET active == GetActiveThread(session_state)
       IN session_state' =
              RenderSidebar([ session_state EXCEPT
                  !.pc = "idle",
                  !.chat_threads[active].messages =
                      Append(@, Message("assistant", ReplyText)) ])
    /\ UNCHANGED beyond_session

InitSession ==
    /\ ServersIdle
    /\ api = NoCalls
    /\ session_state \in { FirstSession(app) : app \in FrontEnds }

NextSession ==
    \/ AppNewChat
    \/ AppClearChat
    \/ \E thread_id \in 1..MaxThreads : AppSwitch(thread_id)
    \/ \E thread_id \in 1..MaxThreads : AppDelete(thread_id)
    \/ \E user_prompt \in UserInputs : AppSend(user_prompt)
    \/ UnifiedNewChat
    \/ UnifiedClearAll
    \/ \E t_id \in 1..MaxThreads : UnifiedSwitch(t_id)
    \/ \E t_id \in 1..MaxThreads : UnifiedDelete(t_id)
    \/ \E user_input \in UserInputs, attached \in BOOLEAN :
           UnifiedSend(user_input, attached)
    \/ UnifiedReply

SpecSession == InitSession /\ [][NextSession]_vars

\* ------------------------------------------------------------------ api.py
\* The non-streaming server.  Its handlers are plain `def` functions without
\* shared state: each request is answered from the request and from what the
\* upstream call did, and the variable api keeps the last answer.

MaxCalls == 4

StatusUnavailable == 503

MockModel == "Mock Mode (Demo)"
FallbackModels == <<"llama3.2", "mistral", "codellama", MockModel>>

\* What requests.get / requests.post did.
\*   refused          requests.exceptions.ConnectionError
\*   connect_timeout  ConnectTimeout, a ConnectionError and a Timeout
\*   read_timeout     ReadTimeout, a Timeout that is no ConnectionError
\*   answered         a response with a status and a body; json tells what
\*                    response.json() makes of the body: "full" (the expected
\*                    keys), "bare" (an object without them) or "invalid"
\*                    (json() raises)
UpstreamFailures == {"refused", "connect_timeout", "read_timeout"}
UpstreamOutcomes ==
    [kind : UpstreamFailures, status : {NoId}, json : {"invalid"}]
    \cup [ kind : {"answered"},
           status : {StatusOK, StatusNotFound, StatusServerError},
           json : {"full", "bare", "invalid"} ]

IsConnectionError(outcome) == outcome.kind \in {"refused", "connect_timeout"}

\* The texts of one upstream answer.
UpstreamContent == "yo"
UpstreamText == "no such model"
UpstreamNames == <<"llama3.2">>

\* str(e) of the exception the upstream call or response.json() raised.
FailureText(outcome) ==
    IF outcome.kind = "answered" THEN "bad json" ELSE outcome.kind

\* str(e) of an HTTPException: "status: detail" where starlette defines
\* __str__, the empty string where it does not.
HTTPExceptionTexts(status, detail) ==
    {"", StatusText(status) \o ": " \o detail}

ApiRequests ==
    [ message : {"hi", ""},
      model : {DefaultModel, MockModel},
      well_formed : BOOLEAN ]

\* The state of api.py after one more request was answered.
Answer(endpoint, model, outcome, status, content, detail, models) ==
    [ calls |-> api.calls + 1,
      endpoint |-> endpoint,     \* "chat" or "models"
      model |-> model,           \* of the request
      upstream |-> outcome,      \* what the upstream call did
      status |-> status,         \* of the response
      content |-> content,       \* "content" of a chat answer
      detail |-> detail,         \* "detail" of an error response
      models |-> models ]        \* "models" of a model list

NoUpstream == [kind |-> "none", status |-> NoId, json |-> "invalid"]

\* raise HTTPException(status_code=response.status_code, ...) inside the try
\* block: the clause the exception ends in.
CaughtByExceptException(status, detail) ==
    { [status |-> StatusServerError,
       detail |-> "Internal Server Error: " \o text] :
          text \in HTTPExceptionTexts(status, detail) }

\* chat_endpoint: [status, content, detail] of the response.
ChatAnswers(request, outcome) ==
    IF request.model = MockModel
    THEN { [status |-> StatusOK,
            content |-> "This is a mock response. I received: '"
                        \o request.message \o "'",
            detail |-> ""] }
    ELSE IF IsConnectionError(outcome)
    THEN { [status |-> StatusUnavailable, content |-> "",
            detail |-> "Could not connect to Ollama (localhost:11434). "
                       \o "Is it running?"] }
    ELSE IF outcome.kind # "answered" \/ (outcome.status = StatusOK
                                          /\ outcome.json = "invalid")
    THEN { [status |-> StatusServerError, content |-> "",
            detail |-> "Internal Server Error: " \o FailureText(outcome)] }
    ELSE IF outcome.status = StatusOK
    THEN { [status |-> StatusOK,
            content |-> IF outcome.json = "full" THEN UpstreamContent
                        ELSE "",
            detail |-> ""] }
    ELSE { [status |-> raised.status, content |-> "",
            detail |-> raised.detail] :
              raised \in CaughtByExceptException(
                             outcome.status,
                             "Ollama Error: " \o UpstreamText) }

\* POST /api/chat
ApiChat ==
    /\ api.calls < MaxCalls
    /\ \E request \in ApiRequests :
          IF ~request.well_formed
          THEN api' = Answer("chat", request.model, NoUpstream,
                             StatusUnprocessable, "", "validation", <<>>)
          ELSE \E outcome \in UpstreamOutcomes :
               \E answer \in ChatAnswers(request, outcome) :
                  api' = Answer("chat", request.model,
                                IF request.model = MockModel THEN NoUpstream
                                ELSE outcome,
                                answer.status, answer.content, answer.detail,
                                <<>>)
    /\ UNCHANGED <<conversations, messages, clock, next_uuid, turns, relay,
                   admin, session_state>>

\* get_models: [status, models] of the response.  An exception that is no
\* ConnectionError leaves the handler and the framework answers 500.
ModelsAnswer(outcome) ==
    IF IsConnectionError(outcome)
    THEN [status |-> StatusOK, models |-> FallbackModels]
    ELSE IF outcome.kind # "answered"
    THEN [status |-> StatusServerError, models |-> <<>>]
    ELSE IF outcome.status # StatusOK
    THEN [status |-> StatusOK, models |-> FallbackModels]
    ELSE IF outcome.json = "invalid"
    THEN [status |-> StatusServerError, models |-> <<>>]
    ELSE [status |-> StatusOK,
          models |-> IF outcome.json = "full" THEN UpstreamNames ELSE <<>>]

\* GET /api/models
ApiGetModels ==
    /\ api.calls < MaxCalls
    /\ \E outcome \in UpstreamOutcomes :
          LET answer == ModelsAnswer(outcome)
          IN api' = Answer("models", "", outcome, answer.status, "",
                           IF answer.status = StatusOK THEN ""
                           ELSE "Internal Server Error",
                           answer.models)
    /\ UNCHANGED <<conversations, messages, clock, next_uuid, turns, relay,
                   admin, session_state>>

NextApi == ApiChat \/ ApiGetModels

SpecApi == Init /\ [][NextApi]_vars

\* ---------------------------------------------------------------- properties

\* The rows a turn inserted, by role, in insertion order.
UserRows(t) ==
    SelectSeq(messages, LAMBDA m : m.turn = t /\ m.role = "user")
AssistantRows(t) ==
    SelectSeq(messages, LAMBDA m : m.turn = t /\ m.role = "assistant")

\* The events of a turn's stream that end it for the caller.
TerminalEvents(t) ==
    SelectSeq(turns[t].events, LAMBDA e : e.type \in {"done", "error"})

LastEvent(t) == turns[t].events[Len(turns[t].events)]

\* The generator of turn t ran to its end; no exception left it.
Completed(t) == turns[t].pc = "finished"
\* The response stream of turn t is over, one way or the other.
StreamOver(t) == turns[t].pc \in {"finished", "aborted"}

\* chat_endpoint returned a streaming response for turn t.
Accepted(t) ==
    turns[t].pc \in {"open", "streaming", "finished", "aborted", "cancelled"}

\* The turns accepted on conversation cid.
TurnsOn(cid) == { t \in Turns : Accepted(t) /\ turns[t].conversation = cid }

\* C1: a turn whose upstream stream ended normally after n >= 1 fragments, and
\* whose generator ran to its end, has appended exactly one assistant message
\* to its conversation, whose content is the concatenation of the fragments in
\* delivery order, and its only terminal event is a final done event carrying
\* that message's id.
C1_ReplyIsConcatenation ==
    \A t \in Turns :
        ( /\ Completed(t)
          /\ turns[t].upstream = "ended"
          /\ Len(turns[t].delivered) >= 1 )
        => /\ Len(AssistantRows(t)) = 1
           /\ AssistantRows(t)[1].conversation_id = turns[t].conversation
           /\ AssistantRows(t)[1].content = JoinStr(turns[t].delivered, "")
           /\ Len(TerminalEvents(t)) = 1
           /\ LastEvent(t).type = "done"
           /\ LastEvent(t).message_id = AssistantRows(t)[1].id

\* A turn committed a reply made of two different fragments.
C1_Witness ==
    \E t \in Turns :
        /\ Completed(t)
        /\ turns[t].upstream = "ended"
        /\ turns[t].delivered = <<"a", "b">>
        /\ Len(AssistantRows(t)) = 1

\* C2: a turn whose upstream call failed (connection refused, HTTP error
\* status, timeout) ends with an error event and leaves exactly one new user
\* message and no new assistant message.
C2_UpstreamFailureLeavesUserOnly ==
    \A t \in Turns :
        (Completed(t) /\ turns[t].upstream = "failed")
        => /\ LastEvent(t).type = "error"
           /\ Len(UserRows(t)) = 1
           /\ Len(AssistantRows(t)) = 0

\* C3: a turn whose upstream stream yielded no fragment gets no done event and
\* stores no assistant message.
C3_NoFragmentIsFailure ==
    \A t \in Turns :
        ( /\ Completed(t)
          /\ turns[t].upstream = "ended"
          /\ turns[t].delivered = << >> )
        => /\ \A i \in 1..Len(turns[t].events) : turns[t].events[i].type # "done"
           /\ Len(AssistantRows(t)) = 0

\* C4: the event stream of every accepted turn ends with exactly one terminal
\* event, done if an assistant message was committed and error otherwise, also
\* when an exception ended the generator.
C4_OneTerminalEvent ==
    \A t \in Turns :
        StreamOver(t)
        => /\ Len(TerminalEvents(t)) = 1
           /\ LastEvent(t).type \in {"done", "error"}
           /\ (LastEvent(t).type = "done") <=> (Len(AssistantRows(t)) = 1)

\* C5: from the moment chat_endpoint hands over to the generator, hence
\* whenever the upstream request of a turn has been opened, the user message of
\* the turn is in the store, with the request's text and in the turn's
\* conversation; it is there as well after an exception ended the turn.
C5_UserMessageBeforeUpstream ==
    \A t \in Turns :
        Accepted(t)
        => /\ Len(UserRows(t)) = 1
           /\ UserRows(t)[1].id = turns[t].user_message
           /\ UserRows(t)[1].content = turns[t].request.message
           /\ UserRows(t)[1].conversation_id = turns[t].conversation

\* A turn was cut short by an exception after its upstream request had started,
\* and its user message is stored.
C5_Witness ==
    \E t \in Turns :
        /\ turns[t].pc = "aborted"
        /\ turns[t].upstream = "raised"
        /\ Len(UserRows(t)) = 1

\* The request of turn t has an empty message or names a model the upstream
\* does not have.
InvalidRequest(req) == req.message = "" \/ req.model \notin InstalledModels

\* C6: a request with an empty message or an invalid model is rejected and has
\* no side effect: no conversation, no message, no upstream request.  (Stated
\* for the requests the handler did not end in its except clause.)
C6_InvalidRequestRejected ==
    \A t \in Turns :
        ( /\ turns[t].pc # "idle"
          /\ InvalidRequest(turns[t].request)
          /\ turns[t].status # StatusServerError )
        => /\ turns[t].status = StatusUnprocessable
           /\ turns[t].conversation = NoId
           /\ Len(UserRows(t)) = 0
           /\ turns[t].upstream = "unopened"

\* The step answers a well-formed request whose conversation_id names no
\* conversation.
AnswersUnknownConversation(t) ==
    /\ turns[t].pc = "idle"
    /\ turns'[t].pc = "responded"
    /\ ChatRequestValid(turns'[t].request)
    /\ turns'[t].request.conversation_id # NoId
    /\ ~ConversationExists(turns'[t].request.conversation_id)

\* C7: a request naming a conversation id that does not exist is answered with
\* HTTP 404 "Conversation not found" and writes nothing.
C7_UnknownConversationIs404 ==
    [][ \A t \in Turns :
          AnswersUnknownConversation(t)
          => /\ turns'[t].status = StatusNotFound
             /\ UNCHANGED <<conversations, messages>> ]_vars

\* C8: in every conversation each assistant message directly follows the user
\* message of its own turn, also when two turns ran on the conversation at the
\* same time (no interleaved half-pairs).
C8_NoInterleavedPairs ==
    \A cid \in DOMAIN conversations :
        LET rows == SelectMessages(messages, cid)
        IN \A i \in 1..Len(rows) :
              rows[i].role = "assistant"
              => /\ i > 1
                 /\ rows[i - 1].role = "user"
                 /\ rows[i - 1].turn = rows[i].turn

\* C9: of two turns on two different conversations, each conversation holds
\* no message of the other turn, every message is stored under the
\* conversation of the turn that wrote it, and a completed turn's own messages
\* in its conversation are its user message followed by its assistant message.
C9_NoCrossConversationBleed ==
    /\ \A i \in 1..Len(messages) :
          messages[i].conversation_id = turns[messages[i].turn].conversation
    /\ \A t \in Turns, u \in Turns :
          ( /\ Completed(t)
            /\ Accepted(u)
            /\ turns[u].conversation # turns[t].conversation )
          => LET rows == SelectMessages(messages, turns[t].conversation)
                 own == SelectSeq(rows, LAMBDA m : m.turn = t)
             IN /\ \A i \in 1..Len(rows) : rows[i].turn # u
                /\ IdsOf(own) = <<turns[t].user_message,
                                  turns[t].assistant_message>>
                /\ RolesOf(own) = <<"user", "assistant">>

\* Two turns on different conversations both completed, and the second was
\* accepted before the first committed its reply.
C9_Witness ==
    \E t \in Turns, u \in Turns :
        /\ Completed(t) /\ Completed(u)
        /\ turns[t].conversation # turns[u].conversation
        /\ Len(messages) >= 3
        /\ messages[1].turn = t
        /\ messages[2].turn = u
        /\ messages[3].turn = t

\* Every turn accepted on conversation cid received a reply from the upstream
\* and completed, and none of them was accepted while another one was still
\* running: a sequence of successful turns.
SuccessfulSequence(cid) ==
    /\ TurnsOn(cid) # {}
    /\ \A t \in TurnsOn(cid) :
          /\ Completed(t)
          /\ turns[t].upstream = "ended"
          /\ turns[t].delivered # << >>
          /\ ~turns[t].overlapped

RECURSIVE Alternating(_)
\* user, assistant, user, assistant, ...
Alternating(roles) ==
    \/ roles = << >>
    \/ /\ Len(roles) >= 2
       /\ roles[1] = "user"
       /\ roles[2] = "assistant"
       /\ Alternating(SubSeq(roles, 3, Len(roles)))

\* C10: after a sequence of successful turns on a conversation, every answer
\* the read endpoint may give lists the messages in insertion order,
\* alternating user and assistant, also when timestamps are equal.
C10_ReadBackInInsertionOrder ==
    \A cid \in DOMAIN conversations :
        SuccessfulSequence(cid)
        => \A answer \in GetConversationMessages(cid) :
              /\ IdsOf(answer) = IdsOf(SelectMessages(messages, cid))
              /\ Alternating(RolesOf(answer))

\* The request of turn t was abandoned by its caller.
Abandoned(t) == turns[t].disconnected

Reading(t) == turns[t].pc = "streaming" /\ turns[t].upstream = "streaming"

\* C12: whenever a turn reads an upstream record with an inline error field,
\* it sends the caller an error event carrying the inline message and reads
\* no further record; the record is not skipped.
C12_InlineErrorSurfaced ==
    \A t \in Turns :
        Reading(t)
        => \A line \in UpstreamLines :
              line.kind = "error"
              => LET after == HandleLine(turns[t], line)
                     n == Len(after.events)
                 IN /\ n = Len(turns[t].events) + 1
                    /\ after.events[n].type = "error"
                    /\ after.events[n].content = line.text
                    /\ after.upstream # "streaming"

\* Lines that are no record of the upstream framing.
MalformedKinds == {"blank", "garbage", "scalar"}

RECURSIVE ChunkContents(_)
\* The contents of the chunk events among events, in order.
ChunkContents(events) ==
    IF events = << >> THEN << >>
    ELSE (IF Head(events).type = "chunk" THEN <<Head(events).content>>
                                         ELSE << >>)
         \o ChunkContents(Tail(events))

\* C13: in a turn that has received a well-formed fragment record, a
\* malformed line is skipped (the turn goes on reading, nothing is relayed
\* for the line), a well-formed record is relayed as a chunk with its text, and
\* so the chunks relayed are the texts of the well-formed records in upstream
\* order.
C13_MalformedLinesSkipped ==
    \A t \in Turns :
        (Reading(t) /\ turns[t].delivered # << >>)
        => /\ ChunkContents(turns[t].events) = turns[t].delivered
           /\ \A line \in UpstreamLines :
                LET after == HandleLine(turns[t], line)
                IN /\ line.kind \in MalformedKinds
                      => /\ after.pc = "streaming"
                         /\ after.upstream = "streaming"
                         /\ after.events = turns[t].events
                         /\ after.delivered = turns[t].delivered
                   /\ line.kind = "frag"
                      => ChunkContents(after.events)
                            = Append(turns[t].delivered, line.text)

\* C14: once a turn has read a record with the completion flag set, no record
\* that follows is relayed as a chunk or added to the reply to be stored.
C14_NothingAfterDone ==
    \A t \in Turns :
        (Reading(t) /\ turns[t].done_seen)
        => \A line \in UpstreamLines :
              LET after == HandleLine(turns[t], line)
              IN /\ after.events = turns[t].events
                 /\ after.full_response = turns[t].full_response

\* The step is the answer to a request to delete conversation cid.
DeleteAnswered(cid) ==
    /\ admin'.calls = admin.calls + 1
    /\ admin'.op = "delete"
    /\ admin'.conversation_id = cid

Accepts(t) == turns[t].pc = "idle" /\ turns'[t].pc = "open"

\* C16: the prompt a turn is accepted with is the rendering of the stored
\* messages of its conversation, every one of them, in stored order, each
\* under the label of its role, the user message just persisted being the
\* last; the prompt is a function of that sequence.
C16_PromptIsStoredHistory ==
    [][ \A t \in Turns :
          Accepts(t)
          => LET stored == SelectMessages(messages', turns'[t].conversation)
             IN /\ stored[Len(stored)].id = turns'[t].user_message
                /\ turns'[t].context = AssembleContext(stored) ]_vars

\* C17: the conversation a turn without conversation id created is titled
\* with the first line of the turn's message, cut to TitleLimit characters
\* and followed by "..." exactly when it was cut; no text after the first line
\* break gets into the title.
C17_TitleIsFirstLine ==
    \A t \in Turns :
        (Accepted(t) /\ turns[t].request.conversation_id = NoId)
        => LET line == FirstLine(turns[t].request.message)
               title == conversations[turns[t].conversation].title
           IN title = IF Len(line) > TitleLimit
                      THEN SubSeq(line, 1, TitleLimit) \o "..."
                      ELSE line

\* C18: when the response of a turn that was started without conversation id
\* has reached its terminal event, one of the events sent so far, the terminal
\* one included, carries the id of the conversation the turn created, also
\* when no chunk event was sent.
C18_NewConversationIdAnnounced ==
    \A t \in Turns :
        ( /\ Accepted(t)
          /\ turns[t].request.conversation_id = NoId
          /\ TerminalEvents(t) # << >> )
        => \E i \in 1..Len(turns[t].events) :
              turns[t].events[i].conversation_id = turns[t].conversation

\* C19: at every moment of an accepted turn the chunk events sent so far are,
\* one for one and in order, the fragments read from the upstream so far: the
\* chunk of each fragment is sent before the next fragment is read, and no
\* chunk is sent that is no fragment.
C19_ChunksMirrorFragments ==
    \A t \in Turns :
        Accepted(t) => ChunkContents(turns[t].events) = turns[t].delivered

\* Message m is newer than every message of every other conversation.
MostRecent(m) ==
    \A i \in 1..Len(messages) :
        messages[i].conversation_id # m.conversation_id
        => messages[i].timestamp < m.timestamp

\* C20: the updated value of a conversation is at least the timestamp of each
\* of its messages, user and assistant, and so every listing the server may
\* return starts with the conversation that holds the most recent message.
C20_AppendAdvancesUpdated ==
    \A i \in 1..Len(messages) :
        LET m == messages[i]
        IN /\ conversations[m.conversation_id].updated >= m.timestamp
           /\ MostRecent(m)
              => \A listing \in GetConversations :
                    listing[1] = m.conversation_id

\* C21: in every step of every sequence of backend operations, each stored
\* message either stays in the store with the same id, role, content and
\* conversation, or goes because the step deleted its conversation; and no
\* stored id gets a second row.
C21_MessagesImmutable ==
    [][ /\ \A i \in 1..Len(messages) :
             \/ \E j \in 1..Len(messages') : messages'[j] = messages[i]
             \/ /\ messages[i].conversation_id \in DOMAIN conversations
                /\ messages[i].conversation_id \notin DOMAIN conversations'
        /\ \A j, k \in 1..Len(messages') :
             messages'[j].id = messages'[k].id => j = k ]_vars

\* A conversation that holds a committed reply was renamed.
C21_Witness ==
    /\ admin.op = "rename"
    /\ admin.status = StatusOK
    /\ conversations[admin.conversation_id].title \in RenameTitles
    /\ \E t \in Turns :
          /\ Completed(t)
          /\ turns[t].conversation = admin.conversation_id
          /\ Len(UserRows(t)) = 1
          /\ Len(AssistantRows(t)) = 1

\* The threads of one step that are listed before and after it.
Kept(old, new) ==
    { pair \in (1..Len(old.chat_threads)) \X (1..Len(new.chat_threads)) :
        old.chat_threads[pair[1]].id = new.chat_threads[pair[2]].id }

\* C22: the title of a thread that holds a user message comes from its first
\* user message (the sidebar snippet of it, or the title generate_title
\* makes of it), and once the thread holds a user message no step changes
\* the title while that first message stays: neither a later user message
\* nor a later render of the sidebar, which must keep a title rename_thread
\* set.
C22_TitleKeepsFirstMessage ==
    [][ \A pair \in Kept(session_state, session_state') :
          LET old == session_state.chat_threads[pair[1]]
              new == session_state'.chat_threads[pair[2]]
              was == UserTurns(old.messages)
              now == UserTurns(new.messages)
          IN /\ now # <<>>
                => new.title \in { Snippet(OldestFirst(now).content),
                                   GenerateTitle(OldestFirst(now).content) }
             /\ (was # <<>> /\ now # <<>>
                 /\ OldestFirst(now) = OldestFirst(was))
                => new.title = old.title ]_vars

StartsWith(text, prefix) ==
    /\ Len(text) >= Len(prefix)
    /\ SubSeq(text, 1, Len(prefix)) = prefix

\* The upstream call of the last api.py request was answered with an error
\* status.
UpstreamErrorStatus ==
    /\ api.upstream.kind = "answered"
    /\ api.upstream.status # StatusOK

\* C23: a chat request of api.py whose upstream call is answered with a
\* status s other than 200 is answered with status s and a detail that starts
\* with "Ollama Error"; it is answered 503 only when the upstream connection
\* failed, and 500 only when s is 500 or an exception other than a connection
\* failure was raised.
C23_UpstreamStatusPassedThrough ==
    api.endpoint = "chat"
    => /\ UpstreamErrorStatus
          => /\ api.status = api.upstream.status
             /\ StartsWith(api.detail, "Ollama Error")
       /\ api.status = StatusUnavailable => IsConnectionError(api.upstream)
       /\ api.status = StatusServerError
          => \/ api.upstream.kind = "read_timeout"
             \/ /\ api.upstream.kind = "answered"
                /\ \/ api.upstream.status = StatusServerError
                   \/ api.upstream.json = "invalid"

\* C24: every request for the model list of api.py is answered 200 with a
\* list: the upstream's model names when the upstream answered 200, the
\* fallback list when the upstream refused the connection, timed out or
\* answered another status.
C24_ModelsAlwaysListed ==
    api.endpoint = "models"
    => /\ api.status = StatusOK
       /\ (api.upstream.kind = "answered" /\ api.upstream.status = StatusOK
           /\ api.upstream.json = "full")
          => api.models = UpstreamNames
       /\ (api.upstream.kind \in UpstreamFailures \/ UpstreamErrorStatus)
          => api.models = FallbackModels

RelayErrors ==
    { i \in 1..Len(relay.events) : relay.events[i].type = "error" }

\* C25: in a stream of the proxy an error event is the last event, after
\* which the generator has finished; a stream holds at most one error event;
\* and the error event that reports an upstream status other than 200 is the
\* stream's only event.
C25_ErrorEndsStream ==
    /\ \A i \in RelayErrors :
          /\ i = Len(relay.events)
          /\ relay.pc = "finished"
          /\ StartsWith(relay.events[i].content, "Ollama API error: ")
             => Len(relay.events) = 1
    /\ Cardinality(RelayErrors) <= 1

\* A stream that failed after its first chunk, and ends with the error event.
C25_Witness ==
    /\ relay.pc = "finished"
    /\ Len(relay.events) = 2
    /\ relay.events[1].type = "chunk"
    /\ relay.events[2].type = "error"

\* C26: every stored message belongs to a stored conversation, also when a
\* conversation is deleted while a turn on it is still streaming.
C26_NoOrphanMessage ==
    \A i \in 1..Len(messages) :
        messages[i].conversation_id \in DOMAIN conversations

\* C27: no turn writes to the store through its database session after the
\* session was closed, and the session of every turn that has sent its
\* terminal event is closed.
C27_NoWriteAfterClose ==
    \A t \in Turns :
        /\ turns[t].writes_after_close = 0
        /\ (Accepted(t) /\ StreamOver(t)) => turns[t].db_closed

\* C28: in both front ends, whatever was clicked and sent, the thread list is
\* not empty, no two listed threads have the same id, and active_thread_id
\* is the id of a listed thread.
C28_ActiveThreadListed ==
    LET threads == session_state.chat_threads
    IN session_state.app \in FrontEnds
       => /\ threads # <<>>
          /\ \A i, j \in 1..Len(threads) :
                threads[i].id = threads[j].id => i = j
          /\ session_state.active_thread_id \in ThreadIds(threads)

\* Three threads were created, one of them was deleted, and the user switched
\* to the thread listed last.
C28_Witness ==
    /\ session_state.uuids = 3
    /\ Len(session_state.chat_threads) = 2
    /\ session_state.active_thread_id = session_state.chat_threads[2].id

\* The messages of the thread with this id, <<>> if it is not listed.
MessagesOf(s, thread_id) ==
    IF thread_id \in ThreadIds(s.chat_threads)
    THEN s.chat_threads[ThreadAt(s.chat_threads, thread_id)].messages
    ELSE <<>>

\* C29: a step that deletes a thread other than the active one changes
\* neither active_thread_id nor the messages of the active thread.
C29_DeleteKeepsActive ==
    [][ \A thread_id \in 1..MaxThreads :
          ( /\ AppDelete(thread_id) \/ UnifiedDelete(thread_id)
            /\ thread_id # session_state.active_thread_id )
          => /\ session_state'.active_thread_id
                = session_state.active_thread_id
             /\ MessagesOf(session_state', session_state.active_thread_id)
                = MessagesOf(session_state, session_state.active_thread_id)
      ]_vars

====
